---- MODULE Spec2Model ----
(***************************************************************************)
(* Model of api/main.py: the YouTube transcript service.                   *)
(*                                                                         *)
(* Strings the code inspects character by character (the url, the          *)
(* videoId) are sequences of one-character strings.  Error messages are    *)
(* sequences of text fragments; each fragment stands for one literal of    *)
(* the source or one provider text, and Contains says which of the         *)
(* substrings the code tests for lie inside it.                            *)
(***************************************************************************)
EXTENDS Integers, Sequences, FiniteSets, TLC

VARIABLES endpoint, input, video_id, pc, transcript_list, log, response

vars == <<endpoint, input, video_id, pc, transcript_list, log, response>>

(***************************************************************************)
(* Bounds of the model.                                                    *)
(***************************************************************************)
\* longest input of the extractor check, in segments of InputSegments
MaxSegs == 3
\* most caption tracks of one kind in a catalog
MaxTracks == 2
\* most entries of a transcript the provider returns
MaxEntries == 2

(***************************************************************************)
(* Characters and text.                                                    *)
(***************************************************************************)
\* the character class [a-zA-Z0-9_-] of the four patterns
TokenChars ==
    { "a","b","c","d","e","f","g","h","i","j","k","l","m","n","o","p","q",
      "r","s","t","u","v","w","x","y","z",
      "A","B","C","D","E","F","G","H","I","J","K","L","M","N","O","P","Q",
      "R","S","T","U","V","W","X","Y","Z",
      "0","1","2","3","4","5","6","7","8","9","_","-" }

\* the repetition count {11} of the four patterns
IdLen == 11

\* Python's None; no input character is the string "None"
None == <<"None">>

\* Python truthiness of an optional string: `not v`
FalsyAlwaysFalse(v) == FALSE

Falsy(v) == v = None \/ v = <<>>

\* the literal prefixes of the first three patterns
LitVEq == <<"v","=">>
LitYoutuBe == <<"y","o","u","t","u",".","b","e","/">>
LitEmbed == <<"e","m","b","e","d","/">>

\* [a-zA-Z0-9_-]{11} matches at position i of s
IsTokenAt(s, i) ==
    /\ i >= 1
    /\ i + IdLen - 1 <= Len(s)
    /\ \A k \in 0..(IdLen - 1) : s[i + k] \in TokenChars

\* the literal lit matches at position i of s
LiteralAt(s, i, lit) ==
    /\ i + Len(lit) - 1 <= Len(s)
    /\ \A k \in 1..Len(lit) : s[i + k - 1] = lit[k]

\* re.search(lit + '([a-zA-Z0-9_-]{11})', s).group(1): the leftmost match
SearchPrefixed(s, lit) ==
    LET hits == { i \in 1..Len(s) :
                    LiteralAt(s, i, lit) /\ IsTokenAt(s, i + Len(lit)) }
    IN  IF hits = {} THEN None
        ELSE LET m == CHOOSE i \in hits : \A j \in hits : i <= j
             IN  SubSeq(s, m + Len(lit), m + Len(lit) + IdLen - 1)

\* re.search('^([a-zA-Z0-9_-]{11})$', s).group(1).  Without re.MULTILINE,
\* ^ matches at the start only, and $ matches at the end of the string and
\* just before a newline that ends the string.
SearchAnchored(s) ==
    IF /\ IsTokenAt(s, 1)
       /\ \/ Len(s) = IdLen
          \/ Len(s) = IdLen + 1 /\ s[IdLen + 1] = "\n"
    THEN SubSeq(s, 1, IdLen)
    ELSE None

\* the list `patterns`, in its order
patterns ==
    << [kind |-> "prefixed", lit |-> LitVEq],
       [kind |-> "prefixed", lit |-> LitYoutuBe],
       [kind |-> "prefixed", lit |-> LitEmbed],
       [kind |-> "anchored", lit |-> <<>>] >>

\* re.search(pattern, url), as the captured group or None
Search(p, s) ==
    IF p.kind = "prefixed" THEN SearchPrefixed(s, p.lit) ELSE SearchAnchored(s)

RECURSIVE ExtractFrom(_, _)
\* the for loop over patterns, from the k-th pattern on
ExtractFrom(k, url) ==
    IF k > Len(patterns) THEN None
    ELSE LET match == Search(patterns[k], url)
         IN  IF match # None THEN match ELSE ExtractFrom(k + 1, url)

extract_video_id(url) == ExtractFrom(1, url)


(***************************************************************************)
(* Inputs.                                                                 *)
(***************************************************************************)
TokA == <<"a","b","c","d","e","f","g","h","i","j","k">>
TokB == <<"A","B","-","D","E","_","G","H","1","2","3">>

\* the pieces the inputs of the extractor check are built from
InputSegments ==
    { LitVEq, LitYoutuBe, LitEmbed, TokA, TokB,
      <<"x">>, <<"?">>, <<"\n">> }

RECURSIVE Concats(_)
\* the concatenations of at most n segments
Concats(n) ==
    IF n = 0 THEN { <<>> }
    ELSE LET shorter == Concats(n - 1)
         IN  shorter \cup { s \o g : s \in shorter, g \in InputSegments }

Inputs == Concats(MaxSegs)

\* the url values of the requests on GET /transcript
Urls ==
    { <<"w","a","t","c","h","?">> \o LitVEq \o TokA,
      LitYoutuBe \o TokB \o <<"?">> \o LitVEq \o TokA,
      LitEmbed \o TokB,
      TokA,
      TokA \o <<"\n">>,
      <<"n","o","t"," ","a"," ","u","r","l">>,
      <<>> }

\* the videoId values of the requests on GET /api/v1/youtube/transcript
VideoIds ==
    { TokA, TokB, <<"x">>, LitVEq \o TokA, <<>> }

(***************************************************************************)
(* Error text.  A message is a sequence of fragments.                      *)
(***************************************************************************)
\* the literals of the source
FragInvalidUrl == "invalid-url"            \* line 141
FragVideoIdRequired == "videoId-required"  \* line 162
FragAllFailed == "all-attempts-failed"     \* line 116
FragWrap == "no-usable-captions-found:"    \* line 120
FragFetchError == "error-while-fetching:"  \* line 146
FragDisabledLocal == "captions-disabled-for-this-video"  \* line 183
FragNotFoundLocal == "no-usable-captions-in-this-video"  \* line 185

\* what str(e) of a provider exception holds, by category
ProviderErrors == { "disabled", "notfound", "other" }

ProviderText(err) ==
    CASE err = "disabled" -> "Subtitles are disabled for this video"
      [] err = "notfound" -> "Could not find transcripts"
      [] OTHER -> "Connection error"

\* the substrings the code tests for
NeedleDisabled == "Subtitles are disabled"         \* line 182
NeedleCouldNotFind == "Could not find transcripts" \* line 184
NeedleNotFoundKo == "chajeul su eopseumnida"       \* line 186

\* the needles that occur in one fragment
NeedlesOf(frag) ==
    CASE frag = ProviderText("disabled") -> { NeedleDisabled }
      [] frag = ProviderText("notfound") -> { NeedleCouldNotFind }
      [] frag = FragWrap -> { NeedleNotFoundKo }
      [] frag = FragNotFoundLocal -> { NeedleNotFoundKo }
      [] OTHER -> {}

\* Python's `needle in msg`
Contains(msg, needle) == \E i \in 1..Len(msg) : needle \in NeedlesOf(msg[i])

(***************************************************************************)
(* The caption provider: an outside collaborator whose answers are free.   *)
(***************************************************************************)
Langs == { "ko", "en", "ja" }

\* the ordered language keys of one catalog dict
TrackLists ==
    { t \in UNION { [1..n -> Langs] : n \in 0..MaxTracks } :
        \A i, j \in 1..Len(t) : i # j => t[i] # t[j] }

Catalogs == [manual : TrackLists, generated : TrackLists]

Entries ==
    { [text |-> "hello", start |-> 0, duration |-> 2],
      [text |-> "world", start |-> 2, duration |-> 1] }

\* what a successful fetch may return
Transcripts == UNION { [1..n -> Entries] : n \in 0..MaxEntries }

NoCatalog == [manual |-> <<>>, generated |-> <<>>]
NoResponse == [status |-> 0, detail |-> <<>>, transcript |-> <<>>]

(***************************************************************************)
(* Responses.                                                              *)
(***************************************************************************)
TranscriptItemsReversed(transcript) ==
    [i \in 1..Len(transcript) |->
        [text |-> transcript[Len(transcript) + 1 - i].text,
         start |-> transcript[Len(transcript) + 1 - i].start,
         duration |-> transcript[Len(transcript) + 1 - i].duration]]

\* the list comprehension building TranscriptItem objects
TranscriptItems(transcript) ==
    [i \in 1..Len(transcript) |->
        [text |-> transcript[i].text,
         start |-> transcript[i].start,
         duration |-> transcript[i].duration]]

\* return TranscriptResponse(transcript=transcript_items)
Success(transcript) ==
    [status |-> 200, detail |-> <<>>, transcript |-> TranscriptItems(transcript)]

HTTPException(status_code, detail) ==
    [status |-> status_code, detail |-> detail, transcript |-> <<>>]

\* the outer except of get_youtube_transcript: the error it raises for e
Wrapped(e) == <<FragWrap>> \o e

\* the except clause of transcript, for the message of the caught error
transcript_except(e) == HTTPException(500, <<FragFetchError>> \o e)

\* the except clause of gpt_transcript, for the message of the caught error
gpt_except(e) ==
    LET error_message ==
            IF Contains(e, NeedleDisabled) THEN <<FragDisabledLocal>>
            ELSE IF Contains(e, NeedleCouldNotFind) THEN <<FragNotFoundLocal>>
            ELSE e
    IN  HTTPException(
            IF Contains(error_message, NeedleNotFoundKo) THEN 404 ELSE 500,
            error_message)

\* get_youtube_transcript raises for e, and the endpoint answers
Raise(e) ==
    /\ response' = IF endpoint = "transcript"
                   THEN transcript_except(Wrapped(e))
                   ELSE gpt_except(Wrapped(e))
    /\ pc' = "done"

\* get_youtube_transcript returns transcript, and the endpoint answers
Return(transcript) ==
    /\ response' = Success(transcript)
    /\ pc' = "done"

\* one line of the history: a step of the retrieval and its provider call
Line(step, op, arg, ok, err, result) ==
    [step |-> step, op |-> op, id |-> video_id, arg |-> arg,
     ok |-> ok, err |-> err, result |-> result]


(***************************************************************************)
(* The request handlers.  Each action runs the code up to its next call   *)
(* of the provider, or up to the response.                                 *)
(***************************************************************************)
Init ==
    /\ endpoint = "none"
    /\ input = <<>>
    /\ video_id = None
    /\ pc = "idle"
    /\ transcript_list = NoCatalog
    /\ log = <<>>
    /\ response = NoResponse

\* GET /transcript?url=...
transcript(url) ==
    /\ pc = "idle"
    /\ endpoint' = "transcript"
    /\ input' = url
    /\ video_id' = extract_video_id(url)
    /\ IF Falsy(extract_video_id(url))
       THEN /\ response' = HTTPException(400, <<FragInvalidUrl>>)
            /\ pc' = "done"
       ELSE /\ response' = response
            /\ pc' = "list"
    /\ UNCHANGED <<transcript_list, log>>

\* GET /api/v1/youtube/transcript?videoId=...
gpt_transcript(videoId) ==
    /\ pc = "idle"
    /\ endpoint' = "gpt"
    /\ input' = videoId
    /\ IF Falsy(videoId)
       THEN /\ response' = HTTPException(400, <<FragVideoIdRequired>>)
            /\ video_id' = video_id
            /\ pc' = "done"
       ELSE /\ response' = response
            /\ video_id' = videoId
            /\ pc' = "list"
    /\ UNCHANGED <<transcript_list, log>>

\* a mutant of list_transcripts: the failure of the listing is swallowed
list_transcripts_swallowed ==
    /\ pc = "list"
    /\ \/ \E c \in Catalogs :
            /\ transcript_list' = c
            /\ log' = Append(log, Line("list", "list_transcripts", <<>>, TRUE, "", <<>>))
            /\ pc' = "ko"
            /\ UNCHANGED response
       \/ \E err \in ProviderErrors :
            /\ log' = Append(log, Line("list", "list_transcripts", <<>>, FALSE, err, <<>>))
            /\ pc' = "ko"
            /\ UNCHANGED <<transcript_list, response>>
    /\ UNCHANGED <<endpoint, input, video_id>>

\* YouTubeTranscriptApi.list_transcripts(video_id) answers
list_transcripts ==
    /\ pc = "list"
    /\ \/ \E c \in Catalogs :
            /\ transcript_list' = c
            /\ log' = Append(log, Line("list", "list_transcripts", <<>>, TRUE, "", <<>>))
            /\ pc' = "ko"
            /\ UNCHANGED response
       \/ \E err \in ProviderErrors :
            /\ log' = Append(log, Line("list", "list_transcripts", <<>>, FALSE, err, <<>>))
            /\ Raise(<<ProviderText(err)>>)
            /\ UNCHANGED transcript_list
    /\ UNCHANGED <<endpoint, input, video_id>>

\* a mutant of LanguageStep: a fetched transcript is not returned
LanguageStepNoReturn(here, lang, next) ==
    /\ pc = here
    /\ \/ \E t \in Transcripts :
            /\ log' = Append(log, Line(here, "get_transcript", <<lang>>, TRUE, "", t))
            /\ pc' = next
            /\ UNCHANGED response
       \/ /\ log' = Append(log, Line(here, "get_transcript", <<lang>>, FALSE, "caught", <<>>))
          /\ pc' = next
          /\ UNCHANGED response
    /\ UNCHANGED <<endpoint, input, video_id, transcript_list>>

\* steps 1 and 3: YouTubeTranscriptApi.get_transcript(video_id, languages=[lang])
\* answers; its exception is caught and printed, whatever it is
LanguageStep(here, lang, next) ==
    /\ pc = here
    /\ \/ \E t \in Transcripts :
            /\ log' = Append(log, Line(here, "get_transcript", <<lang>>, TRUE, "", t))
            /\ Return(t)
       \/ /\ log' = Append(log, Line(here, "get_transcript", <<lang>>, FALSE, "caught", <<>>))
          /\ pc' = next
          /\ UNCHANGED response
    /\ UNCHANGED <<endpoint, input, video_id, transcript_list>>

\* lang in transcript_list._generated_transcripts
InTracks(lang, tracks) == \E i \in 1..Len(tracks) : tracks[i] = lang

\* steps 2 and 4: transcript_list._generated_transcripts[lang].fetch() answers,
\* when the catalog has that track
GeneratedStep(here, lang, next) ==
    /\ pc = here
    /\ IF InTracks(lang, transcript_list.generated)
       THEN \/ \E t \in Transcripts :
                 /\ log' = Append(log, Line(here, "fetch", <<"generated", lang>>, TRUE, "", t))
                 /\ Return(t)
            \/ /\ log' = Append(log, Line(here, "fetch", <<"generated", lang>>, FALSE, "caught", <<>>))
               /\ pc' = next
               /\ UNCHANGED response
       ELSE /\ log' = Append(log, Line(here, "none", <<>>, FALSE, "absent", <<>>))
            /\ pc' = next
            /\ UNCHANGED response
    /\ UNCHANGED <<endpoint, input, video_id, transcript_list>>

step_ko == LanguageStep("ko", "ko", "ko_auto")

step_ko_auto == GeneratedStep("ko_auto", "ko", "en")

step_en == LanguageStep("en", "en", "en_auto")

step_en_auto == GeneratedStep("en_auto", "en", "first")

\* a mutant of FirstTrack: the generated catalog is looked at first
FirstTrackGeneratedFirst(catalog) ==
    IF catalog.generated # <<>> THEN <<"generated", Head(catalog.generated)>>
    ELSE IF catalog.manual # <<>> THEN <<"manual", Head(catalog.manual)>>
    ELSE <<>>

\* step 5's choice: the first manual track, else the first generated one
FirstTrack(catalog) ==
    IF catalog.manual # <<>> THEN <<"manual", Head(catalog.manual)>>
    ELSE IF catalog.generated # <<>> THEN <<"generated", Head(catalog.generated)>>
    ELSE <<>>

\* step 5: the fetch of the chosen track answers; with no track, or when the
\* fetch fails, the retrieval raises
step_first ==
    /\ pc = "first"
    /\ LET track == FirstTrack(transcript_list)
       IN  IF track # <<>>
           THEN \/ \E t \in Transcripts :
                     /\ log' = Append(log, Line("first", "fetch", track, TRUE, "", t))
                     /\ Return(t)
                \/ /\ log' = Append(log, Line("first", "fetch", track, FALSE, "caught", <<>>))
                   /\ Raise(<<FragAllFailed>>)
           ELSE /\ log' = Append(log, Line("first", "none", <<>>, FALSE, "absent", <<>>))
                /\ Raise(<<FragAllFailed>>)
    /\ UNCHANGED <<endpoint, input, video_id, transcript_list>>

Next ==
    \/ \E url \in Urls : transcript(url)
    \/ \E videoId \in VideoIds : gpt_transcript(videoId)
    \/ list_transcripts
    \/ step_ko
    \/ step_ko_auto
    \/ step_en
    \/ step_en_auto
    \/ step_first

Spec == Init /\ [][Next]_vars

(***************************************************************************)
(* The extractor alone, over every input of Inputs.                        *)
(***************************************************************************)
InitExtract ==
    /\ endpoint = "none"
    /\ input \in Inputs
    /\ video_id = None
    /\ pc = "extract"
    /\ transcript_list = NoCatalog
    /\ log = <<>>
    /\ response = NoResponse

Extract ==
    /\ pc = "extract"
    /\ video_id' = extract_video_id(input)
    /\ pc' = "extracted"
    /\ UNCHANGED <<endpoint, input, transcript_list, log, response>>

NextExtract == Extract

SpecExtract == InitExtract /\ [][NextExtract]_vars


(***************************************************************************)
(* Vocabulary of the properties.                                           *)
(***************************************************************************)
Done == pc = "done"

\* the lines of the history that are calls of the provider
Calls == { i \in 1..Len(log) : log[i].op # "none" }

FetchCalls == { i \in Calls : log[i].op \in { "get_transcript", "fetch" } }

\* the catalog listing failed
ListFailed == Len(log) >= 1 /\ ~log[1].ok

\* the listing succeeded and every one of the five fallback steps failed
Exhausted ==
    /\ Done
    /\ Len(log) = 6
    /\ log[1].ok
    /\ \A i \in 2..6 : ~log[i].ok

\* the order of the retrieval's steps
StepOrder == << "list", "ko", "ko_auto", "en", "en_auto", "first" >>

\* entry by entry, field by field
SameEntries(items, entries) ==
    /\ Len(items) = Len(entries)
    /\ \A i \in 1..Len(entries) :
          /\ items[i].text = entries[i].text
          /\ items[i].start = entries[i].start
          /\ items[i].duration = entries[i].duration

AllTokenChars(s) == \A k \in 1..Len(s) : s[k] \in TokenChars

(***************************************************************************)
(* C1: on either endpoint, when every fallback step has failed the         *)
(* request is answered 404, and with no transcript.                        *)
(* Violated: GET /transcript answers 500.                                  *)
(***************************************************************************)
C1_ExhaustionIsNotFound ==
    Exhausted => response.status = 404 /\ response.transcript = <<>>

(***************************************************************************)
(* C2: a request with an invalid input (a url without an identifier on     *)
(* GET /transcript, an empty videoId on the other endpoint) is answered    *)
(* 400, and at no point of it is the provider called.                      *)
(***************************************************************************)
InvalidRequest ==
    \/ endpoint = "transcript" /\ extract_video_id(input) = None
    \/ endpoint = "gpt" /\ input = <<>>

C2_InvalidInputRejected ==
    InvalidRequest => /\ Done
                      /\ response.status = 400
                      /\ Calls = {}
                      /\ log = <<>>

C2_Witness ==
    /\ endpoint = "transcript"
    /\ input # <<>>
    /\ extract_video_id(input) = None
    /\ response.status = 400

(***************************************************************************)
(* C3: the steps run in their fixed order, each only after every earlier   *)
(* fallback step has failed, and the first success ends the retrieval      *)
(* with that step's transcript; when the ko lookup fails and the en        *)
(* lookup succeeds, the answer is the en transcript and en_auto and the    *)
(* catalog step never run.                                                 *)
(***************************************************************************)
C3_SequentialFallback ==
    /\ Len(log) <= Len(StepOrder)
    /\ \A i \in 1..Len(log) :
          /\ log[i].step = StepOrder[i]
          /\ i >= 2 => log[1].ok /\ \A j \in 2..(i - 1) : ~log[j].ok
          /\ (i >= 2 /\ log[i].ok) =>
                /\ i = Len(log)
                /\ Done
                /\ response.status = 200
                /\ SameEntries(response.transcript, log[i].result)
    /\ (Len(log) >= 4 /\ ~log[2].ok /\ log[4].ok) =>
          /\ Len(log) = 4
          /\ log[2].op = "get_transcript" /\ log[2].arg = <<"ko">>
          /\ log[4].op = "get_transcript" /\ log[4].arg = <<"en">>
          /\ SameEntries(response.transcript, log[4].result)

C3_Witness ==
    /\ Done
    /\ Len(log) = 4
    /\ ~log[2].ok
    /\ log[3].op = "fetch" /\ ~log[3].ok
    /\ log[4].ok
    /\ Len(log[4].result) = 2
    /\ response.transcript = log[4].result

(***************************************************************************)
(* C4: an unexpected provider error yields 500 and the exhaustion of the   *)
(* fallback chain yields 404, on both endpoints.                           *)
(* Violated: the other endpoint answers 404 to a connection error of the   *)
(* listing, and GET /transcript answers 500 to the exhaustion.             *)
(***************************************************************************)
C4_StatusTaxonomy ==
    /\ (Done /\ ListFailed /\ log[1].err = "other") => response.status = 500
    /\ Exhausted => response.status = 404

(***************************************************************************)
(* C5: every identifier handed to the provider is 11 characters of         *)
(* [A-Za-z0-9_-] that a pattern of the extractor captured from the input.  *)
(* Violated: the videoId endpoint hands over any non-empty string.         *)
(***************************************************************************)
C5_ProviderIdsExtracted ==
    \A i \in Calls :
        /\ Len(log[i].id) = IdLen
        /\ AllTokenChars(log[i].id)
        /\ \E k \in 1..Len(patterns) : Search(patterns[k], input) = log[i].id

(***************************************************************************)
(* C6: the extractor returns the token after the leftmost `v=`, else the   *)
(* one after `youtu.be/`, else the one after `embed/`, else the whole      *)
(* input when it is itself an 11-character token, and None exactly when    *)
(* none of these four applies.                                             *)
(* Violated: an 11-character token followed by one newline is returned     *)
(* without the newline, though the input is no token.                      *)
(***************************************************************************)
\* the places of s where lit is followed by an 11-character token
TokensAfter(s, lit) ==
    { i \in 1..(Len(s) - Len(lit) - IdLen + 1) :
        /\ SubSeq(s, i, i + Len(lit) - 1) = lit
        /\ AllTokenChars(SubSeq(s, i + Len(lit), i + Len(lit) + IdLen - 1)) }

Leftmost(S) == CHOOSE i \in S : \A j \in S : i <= j

TokenAfter(s, lit) ==
    SubSeq(s, Leftmost(TokensAfter(s, lit)) + Len(lit),
              Leftmost(TokensAfter(s, lit)) + Len(lit) + IdLen - 1)

\* the input is itself an 11-character token
WholeToken(s) == Len(s) = IdLen /\ AllTokenChars(s)

Expected(s) ==
    IF TokensAfter(s, LitVEq) # {} THEN TokenAfter(s, LitVEq)
    ELSE IF TokensAfter(s, LitYoutuBe) # {} THEN TokenAfter(s, LitYoutuBe)
    ELSE IF TokensAfter(s, LitEmbed) # {} THEN TokenAfter(s, LitEmbed)
    ELSE IF WholeToken(s) THEN s
    ELSE None

C6_PriorityExtraction ==
    pc = "extracted" => video_id = Expected(input)

\* what does hold: the same, with one newline after the whole-input token
\* allowed by the fourth pattern
C6_UpToFinalNewline ==
    pc = "extracted" =>
        video_id = IF /\ Expected(input) = None
                      /\ Len(input) = IdLen + 1
                      /\ input[IdLen + 1] = "\n"
                      /\ WholeToken(SubSeq(input, 1, IdLen))
                   THEN SubSeq(input, 1, IdLen)
                   ELSE Expected(input)

(***************************************************************************)
(* C7: a successful response carries the entries of the provider step      *)
(* that succeeded: as many, in the same order, with the same text, start   *)
(* and duration.                                                           *)
(***************************************************************************)
C7_EntriesPassThrough ==
    response.status = 200 =>
        /\ Len(log) >= 2
        /\ log[Len(log)].ok
        /\ SameEntries(response.transcript, log[Len(log)].result)

C7_Witness ==
    /\ response.status = 200
    /\ Len(response.transcript) = 2
    /\ response.transcript[1] # response.transcript[2]
    /\ response.transcript = log[Len(log)].result

(***************************************************************************)
(* C8: when the provider reports captions disabled or no transcript found  *)
(* the detail is the localized message of that category, on both           *)
(* endpoints; for every other cause it is the generic wrapped message.     *)
(* Violated: GET /transcript wraps the raw provider text, whatever the     *)
(* category.                                                               *)
(***************************************************************************)
C8_LocalizedDetail ==
    /\ (Done /\ ListFailed /\ log[1].err = "disabled") =>
          response.detail = <<FragDisabledLocal>>
    /\ (Done /\ ListFailed /\ log[1].err = "notfound") =>
          response.detail = <<FragNotFoundLocal>>
    /\ (Done /\ ListFailed /\ log[1].err = "other") =>
          /\ response.detail[Len(response.detail)] = ProviderText("other")
          /\ response.detail[Len(response.detail) - 1] = FragWrap
    /\ Exhausted =>
          /\ response.detail[Len(response.detail)] = FragAllFailed
          /\ response.detail[Len(response.detail) - 1] = FragWrap

(***************************************************************************)
(* C9: the catalog step runs only after the ko, ko_auto, en and en_auto    *)
(* steps have all failed; it fetches the first manual track whenever the   *)
(* manual catalog is not empty, a generated track (the first) only when    *)
(* the manual catalog is empty, nothing when both are empty; and the       *)
(* retrieval gives up only when that step fetched no transcript.           *)
(***************************************************************************)
C9_FinalCatalogStep ==
    \A i \in 1..Len(log) :
        log[i].step = "first" =>
            /\ i = 6
            /\ log[1].ok
            /\ \A j \in 2..5 : ~log[j].ok
            /\ transcript_list.manual # <<>> =>
                  /\ log[i].op = "fetch"
                  /\ log[i].arg = <<"manual", transcript_list.manual[1]>>
            /\ (log[i].op = "fetch" /\ log[i].arg[1] = "generated") =>
                  /\ transcript_list.manual = <<>>
                  /\ log[i].arg[2] = transcript_list.generated[1]
            /\ (transcript_list.manual = <<>> /\ transcript_list.generated # <<>>) =>
                  /\ log[i].op = "fetch"
                  /\ log[i].arg[1] = "generated"
            /\ log[i].op = "none" <=>
                  (transcript_list.manual = <<>> /\ transcript_list.generated = <<>>)
            /\ Done
            /\ log[i].ok <=> response.status = 200
            /\ log[i].ok => SameEntries(response.transcript, log[i].result)
            /\ ~log[i].ok => response.status \in { 404, 500 }

C9_Witness ==
    /\ Len(log) = 6
    /\ Len(transcript_list.manual) = 2
    /\ transcript_list.generated # <<>>
    /\ log[6].arg = <<"manual", transcript_list.manual[1]>>
    /\ log[6].ok
    /\ response.status = 200

(***************************************************************************)
(* C10: the catalog listing is the first provider call of a retrieval and  *)
(* the only listing; when it fails no fetch is attempted and the request   *)
(* fails with the wrapped error; a request makes at most one listing and   *)
(* five fetches, and ends in one response, after which nothing runs.       *)
(***************************************************************************)
C10_ListingFirst ==
    /\ Len(log) >= 1 => log[1].op = "list_transcripts"
    /\ \A i \in 2..Len(log) : log[i].op # "list_transcripts"
    /\ ListFailed =>
          /\ Len(log) = 1
          /\ FetchCalls = {}
          /\ Done
          /\ response.status \in { 404, 500 }
          /\ response.transcript = <<>>
          /\ endpoint = "transcript" =>
                response.detail = <<FragFetchError, FragWrap, ProviderText(log[1].err)>>
          /\ (endpoint = "gpt" /\ log[1].err = "other") =>
                response.detail = <<FragWrap, ProviderText(log[1].err)>>
    /\ Cardinality(Calls \ FetchCalls) <= 1
    /\ Cardinality(FetchCalls) <= 5
    /\ Done <=> response # NoResponse
    /\ Done => ~ENABLED Next

C10_Witness ==
    /\ Done
    /\ ListFailed
    /\ log[1].err = "other"
    /\ endpoint = "gpt"
    /\ response.status = 404

====
